---------------------------- MODULE Spec2Model ----------------------------
(***************************************************************************)
(* Point - OBB collision demo (src/PointOBB/main.cpp).                     *)
(*                                                                         *)
(* Numbers.  The program computes in float; the model computes in exact    *)
(* rationals.  A scalar is a record [n, d] (numerator, denominator > 0),   *)
(* a vector a record [n |-> <<..>>, d] and a matrix a record               *)
(* [n |-> <<col1, col2, col3, col4>>, d] whose entries share the           *)
(* denominator d and are kept in lowest terms.  A glm matrix m[c][r]       *)
(* (column c, row r, from 0) is M.n[c+1][r+1] / M.d.  Rounding of float    *)
(* arithmetic is outside the model.                                        *)
(*                                                                         *)
(* glm.  glm::mat4(1.0f), glm::translate, glm::scale, glm::rotate, the     *)
(* matrix products and glm::dot are modelled by their defining formulas.   *)
(* A default-constructed glm::mat4 is the identity (the constructor of the *)
(* GLM releases this 2015 project builds against); Mesh's constructor and  *)
(* update() rely on it.                                                    *)
(*                                                                         *)
(* Angles.  An angle is the pair (cos, sin) as a record [cos, sin, den].   *)
(* Cursor coordinates are counted in units of atan(4/3)/rotationSpeed      *)
(* pixels, so that a cursor movement of k units is the angle k*atan(4/3),  *)
(* whose cosine and sine are rational ((3+4i)^k / 5^k).                    *)
(***************************************************************************)
EXTENDS Integers, Sequences, FiniteSets, TLC

VARIABLES box, point, selectedShape, boxCollider, isMousePressed,
          prevMouseX, prevMouseY, hue, pc

vars == <<box, point, selectedShape, boxCollider, isMousePressed,
          prevMouseX, prevMouseY, hue, pc>>

---------------------------------------------------------------------------
(* Exact rational arithmetic *)

Abs(x) == IF x < 0 THEN -x ELSE x

RECURSIVE GCD(_, _)
GCD(a, b) == IF b = 0 THEN Abs(a) ELSE GCD(Abs(b), Abs(a) % Abs(b))

GCD4(s) == GCD(GCD(s[1], s[2]), GCD(s[3], s[4]))

LCM(a, b) == (a \div GCD(a, b)) * b

RatDiv(a, b, g) == [n |-> a \div g, d |-> b \div g]

(* The scalar a/b (b > 0) in lowest terms. *)
Rat(a, b) == RatDiv(a, b, GCD(a, b))

RLeq(a, b) == a.n * b.d <= b.n * a.d

RNeg(a) == [n |-> -a.n, d |-> a.d]

RHalf(a) == Rat(a.n, 2 * a.d)

RAdd(a, b) == Rat(a.n * b.d + b.n * a.d, a.d * b.d)

VecOver(s, D) ==
    IF Len(s) = 3
    THEN [n |-> <<s[1].n * (D \div s[1].d), s[2].n * (D \div s[2].d),
                  s[3].n * (D \div s[3].d)>>, d |-> D]
    ELSE [n |-> <<s[1].n * (D \div s[1].d), s[2].n * (D \div s[2].d),
                  s[3].n * (D \div s[3].d), s[4].n * (D \div s[4].d)>>, d |-> D]

(* A vector of scalars (each in lowest terms) brought to one denominator. *)
VecOf(s) ==
    VecOver(s, IF Len(s) = 3 THEN LCM(LCM(s[1].d, s[2].d), s[3].d)
               ELSE LCM(LCM(s[1].d, s[2].d), LCM(s[3].d, s[4].d)))

Comp(v, i) == Rat(v.n[i], v.d)

VecAdd(a, b) ==
    VecOf(<<RAdd(Comp(a, 1), Comp(b, 1)), RAdd(Comp(a, 2), Comp(b, 2)),
            RAdd(Comp(a, 3), Comp(b, 3))>>)

(* glm::dot(a, b) *)
Dot3(a, b) ==
    Rat(a.n[1] * b.n[1] + a.n[2] * b.n[2] + a.n[3] * b.n[3], a.d * b.d)

ColDiv(col, g) == <<col[1] \div g, col[2] \div g, col[3] \div g, col[4] \div g>>

MatDiv(n, d, g) ==
    [n |-> <<ColDiv(n[1], g), ColDiv(n[2], g), ColDiv(n[3], g), ColDiv(n[4], g)>>,
     d |-> d \div g]

(* The matrix n/d in lowest terms. *)
MatNorm(n, d) ==
    MatDiv(n, d, GCD(GCD(GCD4(n[1]), GCD4(n[2])), GCD(GCD(GCD4(n[3]), GCD4(n[4])), d)))

Entry(M, c, r) == Rat(M.n[c + 1][r + 1], M.d)

(* The columns n times the column v. *)
MulCol(n, v) ==
    <<n[1][1] * v[1] + n[2][1] * v[2] + n[3][1] * v[3] + n[4][1] * v[4],
      n[1][2] * v[1] + n[2][2] * v[2] + n[3][2] * v[3] + n[4][2] * v[4],
      n[1][3] * v[1] + n[2][3] * v[2] + n[3][3] * v[3] + n[4][3] * v[4],
      n[1][4] * v[1] + n[2][4] * v[2] + n[3][4] * v[3] + n[4][4] * v[4]>>

(* glm::mat4 * glm::mat4 *)
MatMul(A, B) ==
    MatNorm(<<MulCol(A.n, B.n[1]), MulCol(A.n, B.n[2]),
              MulCol(A.n, B.n[3]), MulCol(A.n, B.n[4])>>, A.d * B.d)

VecNorm(n, d, g) ==
    [n |-> <<n[1] \div g, n[2] \div g, n[3] \div g, n[4] \div g>>, d |-> d \div g]

(* glm::mat4 * glm::vec4 *)
MatVec4(M, v) ==
    VecNorm(MulCol(M.n, v.n), M.d * v.d, GCD(GCD4(MulCol(M.n, v.n)), M.d * v.d))

(* glm::vec4(v, 1.0f) and glm::vec3(v4) *)
Vec4(v) == [n |-> <<v.n[1], v.n[2], v.n[3], v.d>>, d |-> v.d]

Vec3(v) == VecOf(<<Comp(v, 1), Comp(v, 2), Comp(v, 3)>>)

(* glm::mat4(1.0f), and a default-constructed glm::mat4 *)
Mat4Identity ==
    [n |-> <<<<1, 0, 0, 0>>, <<0, 1, 0, 0>>, <<0, 0, 1, 0>>, <<0, 0, 0, 1>>>>,
     d |-> 1]

ColTimes(col, k) == <<col[1] * k, col[2] * k, col[3] * k, col[4] * k>>

(* glm::translate(M, v): the last column becomes M[0]*v.x + M[1]*v.y + M[2]*v.z + M[3] *)
GlmTranslate(M, v) ==
    MatNorm(<<ColTimes(M.n[1], v.d), ColTimes(M.n[2], v.d), ColTimes(M.n[3], v.d),
              MulCol(M.n, <<v.n[1], v.n[2], v.n[3], v.d>>)>>, M.d * v.d)

(* glm::scale(M, v): columns 0..2 are multiplied by v.x, v.y, v.z *)
GlmScale(M, v) ==
    MatNorm(<<ColTimes(M.n[1], v.n[1]), ColTimes(M.n[2], v.n[2]),
              ColTimes(M.n[3], v.n[3]), ColTimes(M.n[4], v.d)>>, M.d * v.d)

(* glm::rotate(M, angle, axis) for a unit axis with integer components:    *)
(* Rotate = c*I + (1-c)*axis*axis^T + s*[axis]x, result = M * Rotate.       *)
GlmRotate(M, angle, axis) ==
    LET c == angle.cos
        s == angle.sin
        t == angle.den - angle.cos
        R == <<
          <<c + t * axis[1] * axis[1], t * axis[1] * axis[2] + s * axis[3],
            t * axis[1] * axis[3] - s * axis[2], 0>>,
          <<t * axis[2] * axis[1] - s * axis[3], c + t * axis[2] * axis[2],
            t * axis[2] * axis[3] + s * axis[1], 0>>,
          <<t * axis[3] * axis[1] + s * axis[2], t * axis[3] * axis[2] - s * axis[1],
            c + t * axis[3] * axis[3], 0>>,
          <<0, 0, 0, angle.den>> >>
    IN  MatMul(M, MatNorm(R, angle.den))

XAxis == <<1, 0, 0>>

YAxis == <<0, 1, 0>>

ZAxis == <<0, 0, 1>>

AngleNeg(a) == [cos |-> a.cos, sin |-> -a.sin, den |-> a.den]

AnglePlusUnit(a) ==
    [cos |-> 3 * a.cos - 4 * a.sin, sin |-> 4 * a.cos + 3 * a.sin, den |-> 5 * a.den]

(* The angle k * atan(4/3): (cos, sin) = (3 + 4i)^k / 5^k. *)
RECURSIVE AngleOfUnits(_)
AngleOfUnits(k) ==
    IF k = 0 THEN [cos |-> 1, sin |-> 0, den |-> 1]
    ELSE IF k < 0 THEN AngleNeg(AngleOfUnits(-k))
         ELSE AnglePlusUnit(AngleOfUnits(k - 1))

---------------------------------------------------------------------------
(* Program constants and construction *)

(* float movementSpeed = 0.02f *)
movementSpeed == Rat(2, 100)

(* float rotationSpeed = 0.01f: radians per pixel.  One cursor unit of the  *)
(* model is atan(4/3)/rotationSpeed pixels, so deltaMouse * rotationSpeed   *)
(* for a delta of k cursor units is the angle AngleOfUnits(k).              *)
rotationSpeed(deltaMouse) == AngleOfUnits(deltaMouse)

(* The positions (x, y, z) of boxVerts[0..23]. *)
boxVerts ==
    [i \in 0..23 |->
       <<<<-1, -1, -1>>, <<1, -1, -1>>, <<1, -1, -1>>, <<1, -1, 1>>,
         <<1, -1, 1>>, <<-1, -1, 1>>, <<-1, -1, 1>>, <<-1, -1, -1>>,
         <<-1, -1, -1>>, <<-1, 1, -1>>, <<1, -1, -1>>, <<1, 1, -1>>,
         <<1, -1, 1>>, <<1, 1, 1>>, <<-1, -1, 1>>, <<-1, 1, 1>>,
         <<-1, 1, -1>>, <<1, 1, -1>>, <<1, 1, -1>>, <<1, 1, 1>>,
         <<1, 1, 1>>, <<-1, 1, 1>>, <<-1, 1, 1>>, <<-1, 1, -1>>>>[i + 1]]

(* Mesh::Mesh: the constructor assigns to locals that shadow the members,  *)
(* so the three members keep their default-constructed value.              *)
MeshNew ==
    [translation |-> Mat4Identity, rotation |-> Mat4Identity, scale |-> Mat4Identity]

(* OBB::OBB(float w, float h, float d) *)
OBBNew(w, h, d) == [width |-> w, height |-> h, depth |-> d]

(* Mesh::GetModelMatrix *)
GetModelMatrix(mesh) == MatMul(MatMul(mesh.translation, mesh.rotation), mesh.scale)

(* glm::vec3(m[3][0], m[3][1], m[3][2]) *)
TranslationOf(m) == VecOf(<<Entry(m, 3, 0), Entry(m, 3, 1), Entry(m, 3, 2)>>)

---------------------------------------------------------------------------
(* TestCollision *)

(* Mutant: the rows of the rotation matrix taken for the box's axes. *)
BoxAxisRow(boxRotation, i) ==
    VecOf(<<Entry(boxRotation, 0, i), Entry(boxRotation, 1, i), Entry(boxRotation, 2, i)>>)

(* glm::vec3(boxRotation[i][0], boxRotation[i][1], boxRotation[i][2]) *)
BoxAxis(boxRotation, i) ==
    VecOf(<<Entry(boxRotation, i, 0), Entry(boxRotation, i, 1), Entry(boxRotation, i, 2)>>)

(* Mutant: the upper bound excluded. *)
WithinBoundsExclusive(lo, sProj, hi) ==
    RLeq(lo, sProj) /\ RLeq(sProj, hi) /\ ~RLeq(hi, sProj)

(* min <= sProj && sProj <= max *)
WithinBounds(lo, sProj, hi) == RLeq(lo, sProj) /\ RLeq(sProj, hi)

(* Mutant: the box's Y translation subtracted from the point's Z as well. *)
ToBoxFrameYForZ(pointIn, boxTranslation) ==
    VecAdd(pointIn, VecOf(<<RNeg(Entry(boxTranslation, 3, 0)),
                            RNeg(Entry(boxTranslation, 3, 1)),
                            RNeg(Entry(boxTranslation, 3, 1))>>))

(* point += glm::vec3(-boxTranslation[3][0], -boxTranslation[3][1], -boxTranslation[3][2]) *)
ToBoxFrame(pointIn, boxTranslation) ==
    VecAdd(pointIn, VecOf(<<RNeg(Entry(boxTranslation, 3, 0)),
                            RNeg(Entry(boxTranslation, 3, 1)),
                            RNeg(Entry(boxTranslation, 3, 2))>>))

(* Lines 319-333: the three nested bound tests on the translated point. *)
AxisTests(boxRotation, min, max, pt) ==
    IF WithinBounds(Comp(min, 1), Dot3(BoxAxis(boxRotation, 0), pt), Comp(max, 1))
    THEN IF WithinBounds(Comp(min, 2), Dot3(BoxAxis(boxRotation, 1), pt), Comp(max, 2))
         THEN IF WithinBounds(Comp(min, 3), Dot3(BoxAxis(boxRotation, 2), pt), Comp(max, 3))
              THEN TRUE
              ELSE FALSE
         ELSE FALSE
    ELSE FALSE

TestCollision(collider, boxTranslation, boxRotation, boxScale, pointIn) ==
    AxisTests(boxRotation,
        Vec3(MatVec4(boxScale,
                Vec4(VecOf(<<RNeg(RHalf(collider.width)), RNeg(RHalf(collider.height)),
                             RNeg(RHalf(collider.depth))>>)))),
        Vec3(MatVec4(boxScale,
                Vec4(VecOf(<<RHalf(collider.width), RHalf(collider.height),
                             RHalf(collider.depth)>>)))),
        ToBoxFrame(pointIn, boxTranslation))

---------------------------------------------------------------------------
(* Inputs and bounds *)

Keys == {"SPACE", "W", "A", "S", "D", "LEFT_CONTROL", "LEFT_SHIFT", "Q"}

KeyActions == {"PRESS", "RELEASE", "REPEAT"}

MouseButtons == {"LEFT", "RIGHT"}

MouseActions == {"PRESS", "RELEASE"}

(* The cursor positions glfwGetCursorPos can report, in cursor units. *)
CursorCoords == {0, 1}

(* The point may be up to MaxPointSteps key steps along +X from its start. *)
MaxPointSteps == 11

(* Every other displacement (the box's along X, Y, Z and the point's along  *)
(* Y, Z), counted in key steps and summed, is at most MaxSideSteps.         *)
MaxSideSteps == 1

(* The denominators of the two rotation matrices multiply to at most        *)
(* 5^MaxRotExp: at most MaxRotExp unit turns are composed in total.    *)
MaxRotExp == 1

RECURSIVE Pow5(_)
Pow5(k) == IF k = 0 THEN 1 ELSE 5 * Pow5(k - 1)

---------------------------------------------------------------------------
(* main: construction *)

InitBox ==
    [MeshNew EXCEPT
       !.translation = GlmTranslate(MeshNew.translation, VecOf(<<Rat(15, 100), Rat(0, 1), Rat(0, 1)>>)),
       !.scale = GlmScale(MeshNew.scale, VecOf(<<Rat(1, 10), Rat(1, 10), Rat(1, 10)>>))]

(* Mutant: the startup collider built from half the mesh's extent. *)
InitColliderHalf ==
    OBBNew(Rat(boxVerts[1][1], 1), Rat(boxVerts[9][2], 1), Rat(boxVerts[3][3], 1))

InitPoint ==
    [MeshNew EXCEPT
       !.translation = GlmTranslate(MeshNew.translation, VecOf(<<Rat(-15, 100), Rat(0, 1), Rat(0, 1)>>))]

InitCollider ==
    OBBNew(Rat(boxVerts[1][1] - boxVerts[0][1], 1),
           Rat(boxVerts[9][2] - boxVerts[8][2], 1),
           Rat(boxVerts[3][3] - boxVerts[2][3], 1))

(* Key steps between two translations along row r (0: X, 1: Y, 2: Z). *)
StepsAlong(T, T0, r) ==
    ((T.n[4][r + 1] * T0.d - T0.n[4][r + 1] * T.d) * movementSpeed.d)
        \div (T.d * T0.d * movementSpeed.n)

InWindow(b, p) ==
    /\ StepsAlong(p.translation, InitPoint.translation, 0) \in 0..MaxPointSteps
    /\ Abs(StepsAlong(b.translation, InitBox.translation, 0))
         + Abs(StepsAlong(b.translation, InitBox.translation, 1))
         + Abs(StepsAlong(b.translation, InitBox.translation, 2))
         + Abs(StepsAlong(p.translation, InitPoint.translation, 1))
         + Abs(StepsAlong(p.translation, InitPoint.translation, 2)) <= MaxSideSteps

InRotBound(b, p) == b.rotation.d * p.rotation.d <= Pow5(MaxRotExp)

Init ==
    /\ box = InitBox
    /\ point = InitPoint
    /\ selectedShape = "box"
    /\ boxCollider = InitCollider
    /\ isMousePressed = FALSE
    /\ prevMouseX = 0
    /\ prevMouseY = 0
    /\ hue = 1
    /\ pc = "update"

---------------------------------------------------------------------------
(* update *)

(* selectedShape->rotation = yaw * pitch * selectedShape->rotation *)
Rotated(mesh, deltaMouseX, deltaMouseY) ==
    LET yaw == IF deltaMouseX # 0
               THEN GlmRotate(Mat4Identity, rotationSpeed(deltaMouseX), YAxis)
               ELSE Mat4Identity
        pitch == IF deltaMouseY # 0
                 THEN GlmRotate(Mat4Identity, rotationSpeed(deltaMouseY), XAxis)
                 ELSE Mat4Identity
    IN  [mesh EXCEPT !.rotation = MatMul(MatMul(yaw, pitch), mesh.rotation)]

(* Mutant: the drag always rotates the box. *)
DragTargetBox(selected) == "box"

(* The mesh selectedShape points to is the one update() rotates. *)
DragTarget(selected) == selected

(* hue[0][0] = 1.0f when TestCollision is true, else 0.0f *)
HueOf(collides) == IF collides THEN 1 ELSE 0

PointPosition(p) == TranslationOf(p.translation)

Collides(collider, b, p) ==
    TestCollision(collider, b.translation, b.rotation, b.scale, PointPosition(p))

(* Mutant: the collision is tested before the drag rotation is applied. *)
UpdateToStale(b, p, currentMouseX, currentMouseY) ==
    /\ IF isMousePressed THEN InRotBound(b, p) ELSE TRUE
    /\ box' = b
    /\ point' = p
    /\ prevMouseX' = currentMouseX
    /\ prevMouseY' = currentMouseY
    /\ hue' = HueOf(Collides(boxCollider, box, point))

(* Lines 366-383 for the rotated meshes b and p and the cursor read. *)
UpdateTo(b, p, currentMouseX, currentMouseY) ==
    /\ IF isMousePressed THEN InRotBound(b, p) ELSE TRUE
    /\ box' = b
    /\ point' = p
    /\ prevMouseX' = currentMouseX
    /\ prevMouseY' = currentMouseY
    /\ hue' = HueOf(Collides(boxCollider, b, p))

update ==
    /\ pc = "update"
    /\ \E currentMouseX \in (IF isMousePressed THEN CursorCoords ELSE {prevMouseX}),
          currentMouseY \in (IF isMousePressed THEN CursorCoords ELSE {prevMouseY}) :
         UpdateTo(IF isMousePressed /\ DragTarget(selectedShape) = "box"
                  THEN Rotated(box, currentMouseX - prevMouseX, currentMouseY - prevMouseY)
                  ELSE box,
                  IF isMousePressed /\ DragTarget(selectedShape) = "point"
                  THEN Rotated(point, currentMouseX - prevMouseX, currentMouseY - prevMouseY)
                  ELSE point,
                  currentMouseX, currentMouseY)
    /\ pc' = "render"
    /\ UNCHANGED <<selectedShape, boxCollider, isMousePressed>>

(* renderScene and glfwSwapBuffers: hue is handed to the shader, the two   *)
(* meshes are drawn; no program state changes.                             *)
renderScene ==
    /\ pc = "render"
    /\ pc' = "poll"
    /\ UNCHANGED <<box, point, selectedShape, boxCollider, isMousePressed,
                   prevMouseX, prevMouseY, hue>>

---------------------------------------------------------------------------
(* Callbacks, delivered inside glfwPollEvents *)

(* Mutant: W and S exchanged. *)
MoveVectorWDown(key) ==
    LET z == Rat(0, 1)
        m == movementSpeed
    IN  CASE key = "W" -> VecOf(<<z, RNeg(m), z>>)
          [] key = "A" -> VecOf(<<RNeg(m), z, z>>)
          [] key = "S" -> VecOf(<<z, m, z>>)
          [] key = "D" -> VecOf(<<m, z, z>>)
          [] key = "LEFT_CONTROL" -> VecOf(<<z, z, m>>)
          [] key = "LEFT_SHIFT" -> VecOf(<<z, z, RNeg(m)>>)

(* The translation a movement key composes on the left. *)
MoveVector(key) ==
    LET z == Rat(0, 1)
        m == movementSpeed
    IN  CASE key = "W" -> VecOf(<<z, m, z>>)
          [] key = "A" -> VecOf(<<RNeg(m), z, z>>)
          [] key = "S" -> VecOf(<<z, RNeg(m), z>>)
          [] key = "D" -> VecOf(<<m, z, z>>)
          [] key = "LEFT_CONTROL" -> VecOf(<<z, z, m>>)
          [] key = "LEFT_SHIFT" -> VecOf(<<z, z, RNeg(m)>>)

MoveKeys == {"W", "A", "S", "D", "LEFT_CONTROL", "LEFT_SHIFT"}

Moved(mesh, key) ==
    [mesh EXCEPT !.translation =
        MatMul(GlmTranslate(Mat4Identity, MoveVector(key)), mesh.translation)]

(* Mutant: the toggle only ever selects the point. *)
OtherShapeStuck(selected) == "point"

(* selectedShape == box ? point : box *)
OtherShape(selected) == IF selected = "box" THEN "point" ELSE "box"

(* key_callback on the state st = [selectedShape, box, point] *)
KeyEffect(st, key, action) ==
    IF action = "PRESS" \/ action = "REPEAT"
    THEN LET sel == IF key = "SPACE" THEN OtherShape(st.selectedShape)
                    ELSE st.selectedShape
         IN  [selectedShape |-> sel,
              box |-> IF key \in MoveKeys /\ sel = "box"
                      THEN Moved(st.box, key) ELSE st.box,
              point |-> IF key \in MoveKeys /\ sel = "point"
                        THEN Moved(st.point, key) ELSE st.point]
    ELSE st

KeyApply(st) ==
    /\ InWindow(st.box, st.point)
    /\ selectedShape' = st.selectedShape
    /\ box' = st.box
    /\ point' = st.point

key_callback(key, action) ==
    /\ pc = "poll"
    /\ KeyApply(KeyEffect([selectedShape |-> selectedShape, box |-> box,
                           point |-> point], key, action))
    /\ UNCHANGED <<boxCollider, isMousePressed, prevMouseX, prevMouseY, hue, pc>>

(* Mutant: the button is not looked at. *)
PressedAfterAnyButton(button, action) == IF action = "PRESS" THEN TRUE ELSE FALSE

(* isMousePressed = button == LEFT ? (action == PRESS ? true : false) : false *)
PressedAfter(button, action) ==
    IF button = "LEFT" THEN (IF action = "PRESS" THEN TRUE ELSE FALSE) ELSE FALSE

mouse_callback(button, action) ==
    /\ pc = "poll"
    /\ isMousePressed' = PressedAfter(button, action)
    /\ \E cx \in CursorCoords, cy \in CursorCoords :
         /\ prevMouseX' = cx
         /\ prevMouseY' = cy
    /\ UNCHANGED <<box, point, selectedShape, boxCollider, hue, pc>>

(* glfwPollEvents returns and the loop starts over. *)
PollEventsReturn ==
    /\ pc = "poll"
    /\ pc' = "update"
    /\ UNCHANGED <<box, point, selectedShape, boxCollider, isMousePressed,
                   prevMouseX, prevMouseY, hue>>

KeyEvent == \E key \in Keys, action \in KeyActions : key_callback(key, action)

MouseEvent == \E button \in MouseButtons, action \in MouseActions : mouse_callback(button, action)

Next == update \/ renderScene \/ KeyEvent \/ MouseEvent \/ PollEventsReturn

Spec == Init /\ [][Next]_vars

---------------------------------------------------------------------------
(* TestCollision on arbitrary well-formed inputs: the main loop started    *)
(* from any box translation, orthonormal rotation, positive diagonal scale, *)
(* collider and point position of the sets below, with no input delivered. *)

(* Point coordinates range over -FnGrid..FnGrid twentieths. *)
FnGrid == 1

Zero == Rat(0, 1)

QuarterTurn == [cos |-> 0, sin |-> 1, den |-> 1]

FnColliders == {InitCollider, OBBNew(Rat(1, 1), Rat(2, 1), Rat(4, 1))}

FnScales ==
    {Mat4Identity, InitBox.scale,
     GlmScale(Mat4Identity, VecOf(<<Rat(1, 10), Rat(1, 5), Rat(1, 20)>>))}

FnRotations ==
    {Mat4Identity,
     GlmRotate(Mat4Identity, AngleOfUnits(1), YAxis),
     GlmRotate(Mat4Identity, AngleOfUnits(-1), XAxis),
     GlmRotate(Mat4Identity, AngleOfUnits(1), ZAxis),
     GlmRotate(Mat4Identity, QuarterTurn, YAxis),
     GlmRotate(Mat4Identity, QuarterTurn, ZAxis),
     Rotated(MeshNew, 1, 1).rotation,
     Rotated(Rotated(MeshNew, 0, 1), -1, 0).rotation,
     GlmRotate(GlmRotate(Mat4Identity, QuarterTurn, XAxis), AngleOfUnits(1), YAxis)}

FnTranslations ==
    {Mat4Identity,
     GlmTranslate(Mat4Identity, VecOf(<<Rat(-1, 20), Rat(1, 10), Rat(1, 20)>>))}

FnPoints ==
    {VecOf(<<Rat(x, 20), Rat(y, 20), Rat(z, 20)>>) :
        x \in -FnGrid..FnGrid, y \in -FnGrid..FnGrid, z \in -FnGrid..FnGrid}
    \cup {VecOf(<<Rat(x, 2), Rat(y, 2), Rat(z, 1)>>) :
            x \in {-1, 0, 1}, y \in {-2, 0, 2}, z \in {-2, 0, 2}}
    \cup {VecOf(<<Rat(x, 1), Zero, Zero>>) : x \in {-1, 1}}
    \cup {VecOf(<<Rat(21, 20), Zero, Zero>>), VecOf(<<Zero, Rat(-21, 20), Zero>>),
          VecOf(<<Zero, Zero, Rat(41, 20)>>), VecOf(<<Rat(3, 5), Zero, Rat(3, 10)>>)}

InitFn ==
    /\ box \in {[translation |-> t, rotation |-> r, scale |-> sc] :
                  t \in FnTranslations, r \in FnRotations, sc \in FnScales}
    /\ point \in {[MeshNew EXCEPT !.translation = GlmTranslate(Mat4Identity, v)] :
                    v \in FnPoints}
    /\ selectedShape = "box"
    /\ boxCollider \in FnColliders
    /\ isMousePressed = FALSE
    /\ prevMouseX = 0
    /\ prevMouseY = 0
    /\ hue = 1
    /\ pc = "update"

NextFn == update \/ renderScene \/ PollEventsReturn

SpecFn == InitFn /\ [][NextFn]_vars

---------------------------------------------------------------------------
(* The region the box occupies under its model matrix *)

Det3(a, b, c) ==
    a[1] * (b[2] * c[3] - b[3] * c[2]) - a[2] * (b[1] * c[3] - b[3] * c[1])
  + a[3] * (b[1] * c[2] - b[2] * c[1])

RAbs(a) == [n |-> Abs(a.n), d |-> a.d]

(* q = (q1, q2, q3), the solution of M * (q, 1) = (p, 1), lies in the      *)
(* collider's local box [-w/2, w/2] x [-h/2, h/2] x [-d/2, d/2]; rhs is     *)
(* p.d times the right-hand side of the linear system (Cramer's rule).     *)
LocalInBox(M, rhs, pd, det, collider) ==
    /\ det # 0
    /\ RLeq(RAbs(Rat(Det3(rhs, M.n[2], M.n[3]), pd * Abs(det))), RHalf(collider.width))
    /\ RLeq(RAbs(Rat(Det3(M.n[1], rhs, M.n[3]), pd * Abs(det))), RHalf(collider.height))
    /\ RLeq(RAbs(Rat(Det3(M.n[1], M.n[2], rhs), pd * Abs(det))), RHalf(collider.depth))

(* The world-space point p is the image under the model matrix M of a      *)
(* point of the collider's local box.                                      *)
InRegion(M, collider, p) ==
    LocalInBox(M,
               <<M.n[4][4] * p.n[1] - p.d * M.n[4][1],
                 M.n[4][4] * p.n[2] - p.d * M.n[4][2],
                 M.n[4][4] * p.n[3] - p.d * M.n[4][3]>>,
               p.d, Det3(M.n[1], M.n[2], M.n[3]), collider)

(* C1: TestCollision on the box's translation, rotation and scale is true  *)
(* exactly when the point lies in the region the collider's local box      *)
(* occupies under the model matrix T*R*S, and the flag update() leaves is  *)
(* 1 exactly then.                                                         *)
C1_CollisionIffInRegion ==
    pc = "render" =>
      /\ Collides(boxCollider, box, point)
           <=> InRegion(GetModelMatrix(box), boxCollider, PointPosition(point))
      /\ hue = 1 <=> InRegion(GetModelMatrix(box), boxCollider, PointPosition(point))

(* A colliding point of a translated, obliquely rotated, non-uniformly     *)
(* scaled box, after update() has run.                                     *)
C1_Witness ==
    /\ pc = "render"
    /\ hue = 1
    /\ box.rotation.d = 25
    /\ box.translation # Mat4Identity
    /\ Entry(box.scale, 0, 0) # Entry(box.scale, 1, 1)
    /\ PointPosition(point) # TranslationOf(box.translation)

---------------------------------------------------------------------------
(* Inclusive bounds *)

IdentityAtOrigin(b) ==
    b.translation = Mat4Identity /\ b.rotation = Mat4Identity /\ b.scale = Mat4Identity

(* Distances beyond a face. *)
Eps == {Rat(1, 1000), Rat(1, 20), Rat(1, 1), Rat(7, 2)}

(* The centre and the six face centres of the collider's local box. *)
FacePoints(c) ==
    {VecOf(<<Zero, Zero, Zero>>),
     VecOf(<<RHalf(c.width), Zero, Zero>>), VecOf(<<RNeg(RHalf(c.width)), Zero, Zero>>),
     VecOf(<<Zero, RHalf(c.height), Zero>>), VecOf(<<Zero, RNeg(RHalf(c.height)), Zero>>),
     VecOf(<<Zero, Zero, RHalf(c.depth)>>), VecOf(<<Zero, Zero, RNeg(RHalf(c.depth))>>)}

(* The points e beyond each face centre. *)
BeyondPoints(c, e) ==
    {VecOf(<<RAdd(RHalf(c.width), e), Zero, Zero>>),
     VecOf(<<RNeg(RAdd(RHalf(c.width), e)), Zero, Zero>>),
     VecOf(<<Zero, RAdd(RHalf(c.height), e), Zero>>),
     VecOf(<<Zero, RNeg(RAdd(RHalf(c.height), e)), Zero>>),
     VecOf(<<Zero, Zero, RAdd(RHalf(c.depth), e)>>),
     VecOf(<<Zero, Zero, RNeg(RAdd(RHalf(c.depth), e))>>)}

(* C2: for an identity-transformed box at the origin, TestCollision is     *)
(* true at the centre and at the six face centres (+-w/2, +-h/2, +-d/2 on  *)
(* the axes) and false at every point e > 0 beyond a face centre; the flag *)
(* update() stores for the point's position agrees.                        *)
C2_InclusiveBounds ==
    IdentityAtOrigin(box) =>
      /\ \A q \in FacePoints(boxCollider) :
           TestCollision(boxCollider, box.translation, box.rotation, box.scale, q)
      /\ \A e \in Eps : \A q \in BeyondPoints(boxCollider, e) :
           ~TestCollision(boxCollider, box.translation, box.rotation, box.scale, q)
      /\ (pc = "render" /\ PointPosition(point) \in FacePoints(boxCollider)) => hue = 1
      /\ (pc = "render" /\ \E e \in Eps : PointPosition(point) \in BeyondPoints(boxCollider, e))
           => hue = 0

(* The point exactly on the +X face of the identity-transformed box, found *)
(* colliding by update().                                                  *)
C2_Witness ==
    /\ IdentityAtOrigin(box)
    /\ pc = "render"
    /\ PointPosition(point) = VecOf(<<RHalf(boxCollider.width), Zero, Zero>>)
    /\ hue = 1

---------------------------------------------------------------------------
(* Translation invariance *)

FnShifts ==
    {VecOf(<<movementSpeed, Zero, Zero>>),
     VecOf(<<Rat(-3, 20), Rat(3, 10), Rat(1, 20)>>),
     VecOf(<<Rat(1, 1), Rat(-2, 1), Rat(3, 1)>>)}

KeySeqs ==
    {<<<<k, "PRESS">>>> : k \in MoveKeys}
    \cup {<<<<"W", "PRESS">>, <<"A", "REPEAT">>>>,
          <<<<"D", "REPEAT">>, <<"D", "PRESS">>>>,
          <<<<"S", "PRESS">>, <<"D", "PRESS">>, <<"LEFT_CONTROL", "REPEAT">>>>}

(* The key events of seq delivered to key_callback in order. *)
RECURSIVE KeysApplied(_, _)
KeysApplied(st, seq) ==
    IF seq = <<>> THEN st
    ELSE KeysApplied(KeyEffect(st, Head(seq)[1], Head(seq)[2]), Tail(seq))

(* C3: where key events are delivered (update() has stored TestCollision's *)
(* result in hue), TestCollision on the box translation and the point both *)
(* shifted by the same vector returns that same result; and so does        *)
(* TestCollision after the same movement key sequence has been applied     *)
(* once with the box selected and once with the point selected.            *)
C3_TranslationInvariance ==
    pc = "poll" =>
      /\ \A v \in FnShifts :
           TestCollision(boxCollider, MatMul(GlmTranslate(Mat4Identity, v), box.translation),
                         box.rotation, box.scale, VecAdd(PointPosition(point), v))
             = (hue = 1)
      /\ \A seq \in KeySeqs :
           Collides(boxCollider,
                    KeysApplied([selectedShape |-> "box", box |-> box, point |-> point], seq).box,
                    KeysApplied([selectedShape |-> "point", box |-> box, point |-> point], seq).point)
             = (hue = 1)

(* A colliding configuration with the box away from the origin, where key  *)
(* events are delivered, that moving the box alone would separate.         *)
C3_Witness ==
    /\ pc = "poll"
    /\ hue = 1
    /\ box.translation # Mat4Identity
    /\ \E seq \in KeySeqs :
         ~Collides(boxCollider,
                   KeysApplied([selectedShape |-> "box", box |-> box, point |-> point], seq).box,
                   point)

---------------------------------------------------------------------------
(* Rotation invariance *)

FnQ ==
    {GlmRotate(Mat4Identity, AngleOfUnits(1), YAxis),
     GlmRotate(Mat4Identity, AngleOfUnits(-1), XAxis),
     GlmRotate(Mat4Identity, QuarterTurn, ZAxis),
     Rotated(MeshNew, -1, 1).rotation}

(* t + Q * (p - t) for the translation matrix T of t *)
RotatedAbout(Q, T, p) ==
    VecAdd(TranslationOf(T), Vec3(MatVec4(Q, Vec4(ToBoxFrame(p, T)))))

(* C4: TestCollision with box rotation Q*R and point t + Q*(p - t) equals  *)
(* the result update() stored for box rotation R and point p.              *)
C4_RotationInvariance ==
    pc = "render" =>
      \A Q \in FnQ :
        TestCollision(boxCollider, box.translation, MatMul(Q, box.rotation), box.scale,
                      RotatedAbout(Q, box.translation, PointPosition(point)))
          = (hue = 1)

(* update() found a collision that the same test against the world axes    *)
(* (the box unrotated) would not find: the result depends on the rotation. *)
C4_Witness ==
    /\ pc = "render"
    /\ hue = 1
    /\ ~TestCollision(boxCollider, box.translation, Mat4Identity, box.scale,
                      PointPosition(point))

---------------------------------------------------------------------------
(* The demo scenario *)

Origin == VecOf(<<Zero, Zero, Zero>>)

AtStartup(b) == b = InitBox /\ boxCollider = InitCollider

(* The point lies on the X axis strictly between the box's faces at        *)
(* x = 0.05 and x = 0.25.                                                  *)
OnAxisInsideStartupBox(p) ==
    /\ RLeq(Rat(5, 100), Comp(PointPosition(p), 1))
    /\ Comp(PointPosition(p), 1) # Rat(5, 100)
    /\ RLeq(Comp(PointPosition(p), 1), Rat(25, 100))
    /\ Comp(PointPosition(p), 1) # Rat(25, 100)
    /\ Comp(PointPosition(p), 2) = Zero
    /\ Comp(PointPosition(p), 3) = Zero

(* C5 as stated: with the box as constructed (collider from the mesh,      *)
(* scale 0.1, at (0.15,0,0), unrotated) the test is false for the point at *)
(* (-0.15,0,0) and true for the point at (0,0,0).                          *)
C5_AsStated ==
    AtStartup(box) =>
      /\ ~TestCollision(boxCollider, box.translation, box.rotation, box.scale,
                        PointPosition(InitPoint))
      /\ TestCollision(boxCollider, box.translation, box.rotation, box.scale, Origin)

(* C5 amended: with the box as constructed the test is false for the point *)
(* at (-0.15,0,0) and still false for the point at (0,0,0); update() sets  *)
(* the flag to 0 while the point is at its start and to 1 once the point   *)
(* has been moved onto the X axis strictly between x = 0.05 and x = 0.25.  *)
C5_DemoScenario ==
    AtStartup(box) =>
      /\ ~TestCollision(boxCollider, box.translation, box.rotation, box.scale,
                        PointPosition(InitPoint))
      /\ ~TestCollision(boxCollider, box.translation, box.rotation, box.scale, Origin)
      /\ (pc = "render" /\ point.translation = InitPoint.translation) => hue = 0
      /\ (pc = "render" /\ OnAxisInsideStartupBox(point)) => hue = 1

(* The point moved into the box as constructed, seen by update(). *)
C5_Witness ==
    /\ AtStartup(box)
    /\ pc = "render"
    /\ OnAxisInsideStartupBox(point)
    /\ hue = 1

---------------------------------------------------------------------------
(* Selection *)

SpaceToggle == \E action \in {"PRESS", "REPEAT"} : key_callback("SPACE", action)

(* C6: selectedShape is box initially and always box or point; a step      *)
(* changes it exactly when the step is a key event SPACE with PRESS or     *)
(* REPEAT; wherever events are delivered that event can be delivered and   *)
(* changes it, so each selection is reached from the other.                *)
C6_Selection ==
    /\ selectedShape = "box"
    /\ [](selectedShape \in {"box", "point"})
    /\ [][(selectedShape' # selectedShape) <=> SpaceToggle]_vars
    /\ [](pc = "poll" => ENABLED (SpaceToggle /\ selectedShape' # selectedShape))

(* The box selected again after the point had been: the point can only     *)
(* have been moved while it was selected.                                  *)
C6_Witness ==
    /\ selectedShape = "box"
    /\ point.translation # InitPoint.translation

---------------------------------------------------------------------------
(* The flag at render *)

(* C7: when update() has run and at render, hue[0][0] is 1 if              *)
(* TestCollision on the current box translation, rotation, scale and the   *)
(* current point translation is true, and 0 otherwise.                     *)
C7_FlagNeverStale ==
    pc = "render" =>
      /\ hue \in {0, 1}
      /\ hue = 1 <=> TestCollision(boxCollider, box.translation, box.rotation, box.scale,
                                   TranslationOf(point.translation))

(* At render the flag is 1 for a box rotated by a drag, where the          *)
(* unrotated box would not collide.                                        *)
C7_Witness ==
    /\ pc = "render"
    /\ hue = 1
    /\ box.rotation # Mat4Identity
    /\ ~TestCollision(boxCollider, box.translation, Mat4Identity, box.scale,
                      TranslationOf(point.translation))

---------------------------------------------------------------------------
(* Movement keys *)

(* One step of movementSpeed along the world axis the key stands for. *)
AxisStep(key) ==
    CASE key = "W" -> VecOf(<<Zero, movementSpeed, Zero>>)
      [] key = "S" -> VecOf(<<Zero, RNeg(movementSpeed), Zero>>)
      [] key = "D" -> VecOf(<<movementSpeed, Zero, Zero>>)
      [] key = "A" -> VecOf(<<RNeg(movementSpeed), Zero, Zero>>)
      [] key = "LEFT_CONTROL" -> VecOf(<<Zero, Zero, movementSpeed>>)
      [] key = "LEFT_SHIFT" -> VecOf(<<Zero, Zero, RNeg(movementSpeed)>>)

(* after is before with its position shifted by step, nothing else. *)
ShiftedBy(before, after, step) ==
    after = [before EXCEPT !.translation =
                GlmTranslate(Mat4Identity, VecAdd(TranslationOf(before.translation), step))]

(* st2 is st with the selected entity moved one step for key. *)
MovedAsClaimed(st, st2, key) ==
    /\ st2.selectedShape = st.selectedShape
    /\ IF st.selectedShape = "box"
       THEN ShiftedBy(st.box, st2.box, AxisStep(key)) /\ st2.point = st.point
       ELSE ShiftedBy(st.point, st2.point, AxisStep(key)) /\ st2.box = st.box

KeyEffectsAsClaimed(st) ==
    /\ \A key \in MoveKeys, action \in {"PRESS", "REPEAT"} :
         MovedAsClaimed(st, KeyEffect(st, key, action), key)
    /\ \A key \in Keys : KeyEffect(st, key, "RELEASE") = st

(* C8: wherever events are delivered, key_callback for a movement key with *)
(* PRESS or REPEAT adds one step of movementSpeed along the key's world    *)
(* axis to the selected entity's translation and leaves the other entity,  *)
(* both rotations and scales and the selection as they are, and for        *)
(* RELEASE changes nothing; a step in which an entity moves is one such    *)
(* step and leaves the mouse flag, the cursor, the flag and the collider   *)
(* unchanged.                                                              *)
C8_MovementKeys ==
    /\ [](pc = "poll" =>
            KeyEffectsAsClaimed([selectedShape |-> selectedShape, box |-> box,
                                 point |-> point]))
    /\ [][(box'.translation # box.translation \/ point'.translation # point.translation) =>
            /\ \E key \in MoveKeys :
                 MovedAsClaimed([selectedShape |-> selectedShape, box |-> box,
                                 point |-> point],
                                [selectedShape |-> selectedShape', box |-> box',
                                 point |-> point'], key)
            /\ UNCHANGED <<isMousePressed, prevMouseX, prevMouseY, hue, boxCollider, pc>>]_vars

(* A rotated entity has been moved along Y and Z while selected. *)
C8_Witness ==
    /\ pc = "poll"
    /\ selectedShape = "point"
    /\ point.rotation # Mat4Identity
    /\ Comp(PointPosition(point), 2) # Zero

---------------------------------------------------------------------------
(* Drags *)

DragDeltaX == prevMouseX' - prevMouseX

DragDeltaY == prevMouseY' - prevMouseY

---------------------------------------------------------------------------
(* The mouse button *)

RotationsUnchanged == box'.rotation = box.rotation /\ point'.rotation = point.rotation

(* C10: isMousePressed is false before any mouse-button event; a           *)
(* mouse_callback step leaves it true for a PRESS of the left button and   *)
(* false for every other button and action; no other step changes it; a    *)
(* step taken while it is false changes no rotation.                       *)
C10_MousePressed ==
    /\ isMousePressed = FALSE
    /\ [][/\ \A button \in MouseButtons, action \in MouseActions :
               mouse_callback(button, action) =>
                 (isMousePressed' <=> (button = "LEFT" /\ action = "PRESS"))
          /\ (~ \E button \in MouseButtons, action \in MouseActions :
                  mouse_callback(button, action)) =>
                 isMousePressed' = isMousePressed
          /\ ~isMousePressed => RotationsUnchanged]_vars

(* An update has run after the flag was cleared, on a box rotated before. *)
C10_Witness ==
    /\ pc = "render"
    /\ ~isMousePressed
    /\ box.rotation # Mat4Identity
    /\ prevMouseX = 1

===========================================================================
